---- MODULE Spec2Model ----
(***************************************************************************)
(* A model of backend/src/mysite/main.py: the to-do HTTP API over a        *)
(* MongoDB collection.  Every request handler is a coroutine; each await   *)
(* of a storage call is a point where other requests may run, so a        *)
(* handler is modelled as one action per storage call together with the    *)
(* synchronous code that follows it up to the next await or the response.  *)
(***************************************************************************)
EXTENDS Integers, Sequences, FiniteSets, Bags, TLC

VARIABLES
    todos_collection,   \* the documents of db.todos
    clock,              \* what datetime.utcnow() reads, in store resolution
    oid_counter,        \* how many ObjectIds the driver has generated
    inflight,           \* the bag of requests suspended at an await, with their locals
    response,           \* the response sent by the step just taken, if any
    created             \* history: what each create request asked for

vars == <<todos_collection, clock, oid_counter, inflight, response, created>>

(* ------------------------------ bounds -------------------------------- *)

\* Requests that may be in flight (suspended at an await) at the same time.
NumReq == 2
\* Tasks ever inserted in one behaviour.
MaxTasks == 2
\* The clock's last value; utcnow() may read the same value twice.
MaxClock == 1

CreateTexts == {"a"}
UpdateTexts == {"b"}

(* ------------------------- ObjectId and its text ----------------------- *)

HexDigits == <<"0", "1", "2", "3", "4", "5", "6", "7", "8", "9",
               "a", "b", "c", "d", "e", "f">>
HexUpper == <<"0", "1", "2", "3", "4", "5", "6", "7", "8", "9",
              "A", "B", "C", "D", "E", "F">>
HexChars == {HexDigits[i] : i \in 1..16} \cup {HexUpper[i] : i \in 1..16}

HexVal(c) == CHOOSE v \in 0..15 : HexDigits[v + 1] = c \/ HexUpper[v + 1] = c

RECURSIVE Hex(_, _)
\* n written with len lower-case hex digits, most significant first.
Hex(n, len) ==
    IF len = 0 THEN <<>>
    ELSE Append(Hex(n \div 16, len - 1), HexDigits[(n % 16) + 1])

\* The ObjectId the driver generates for the n-th inserted document.
NewObjectId(n) == 10 + n

\* Every ObjectId the driver generates within the bounds.
ObjectIds == {NewObjectId(n) : n \in 0..(MaxTasks - 1)}

\* str(ObjectId): 24 lower-case hex digits.  (The table holds the values for
\* the ids of the model, so that each is computed once.)
ObjectIdStrTable == [oid \in ObjectIds |-> Hex(oid, 24)]
ObjectIdStr(oid) == ObjectIdStrTable[oid]

RECURSIVE HexValue(_)
HexValue(s) ==
    IF s = <<>> THEN 0
    ELSE 16 * HexValue(SubSeq(s, 1, Len(s) - 1)) + HexVal(s[Len(s)])

Upper(s) ==
    [i \in DOMAIN s |->
        IF \E v \in 1..16 : HexDigits[v] = s[i]
        THEN HexUpper[CHOOSE v \in 1..16 : HexDigits[v] = s[i]]
        ELSE s[i]]

\* Well-formed ids: every id a task can get (stored or not at the time of the
\* request), and an upper-case spelling of the first.
WellFormedIds ==
    {Hex(oid, 24) : oid \in ObjectIds} \cup {Upper(Hex(NewObjectId(0), 24))}

\* Malformed ids: too short, too long, not hex.
MalformedIds ==
    { Hex(NewObjectId(0), 23),
      Hex(NewObjectId(0), 25),
      [Hex(NewObjectId(0), 24) EXCEPT ![1] = "g"] }

TaskIds == WellFormedIds \cup MalformedIds

\* ObjectId.is_valid(task_id) for a str: 24 characters, all hex digits.
is_valid_table ==
    [task_id \in TaskIds |->
        /\ Len(task_id) = 24
        /\ \A i \in 1..Len(task_id) : task_id[i] \in HexChars]
is_valid(task_id) == is_valid_table[task_id]

\* ObjectId(task_id): the 12 bytes the hex text denotes, in either case.
ObjectIdTable == [task_id \in {t \in TaskIds : is_valid(t)} |-> HexValue(task_id)]
ObjectId(task_id) == ObjectIdTable[task_id]

(* --------------------------- Pydantic models --------------------------- *)

\* Request bodies of POST /tasks: text, and completed or not.
CreatePayloads ==
    {[text |-> t] : t \in CreateTexts}
        \cup {[text |-> t, completed |-> TRUE] : t \in CreateTexts}

\* Request bodies of PUT /tasks/{id}: any of text, completed.
UpdatePayloads ==
    {[text |-> t, completed |-> FALSE] : t \in UpdateTexts}
        \cup {[text |-> t] : t \in UpdateTexts}
        \cup {[completed |-> FALSE]}
        \cup {[x \in {} |-> TRUE]}

\* An Optional value: <<>> is None, <<v>> is v.
None == <<>>
Some(v) == <<v>>

\* TaskCreate with completed defaulting to true.
TaskCreate_default_true(payload) ==
    [text |-> payload.text,
     completed |-> IF "completed" \in DOMAIN payload
                   THEN payload.completed ELSE TRUE]

TaskCreate(payload) ==
    [text |-> payload.text,
     completed |-> IF "completed" \in DOMAIN payload
                   THEN payload.completed ELSE FALSE]

TaskUpdate(payload) ==
    [text |-> IF "text" \in DOMAIN payload THEN Some(payload.text) ELSE None,
     completed |-> IF "completed" \in DOMAIN payload
                   THEN Some(payload.completed) ELSE None]

task_helper(task) ==
    [id |-> ObjectIdStr(task._id),
     text |-> task.text,
     completed |-> IF "completed" \in DOMAIN task THEN task.completed ELSE FALSE,
     created_at |-> IF "created_at" \in DOMAIN task
                    THEN Some(task.created_at) ELSE None,
     updated_at |-> IF "updated_at" \in DOMAIN task
                    THEN Some(task.updated_at) ELSE None]

(* ------------------------ the collection's calls ----------------------- *)

Ids(collection) == {d._id : d \in collection}

\* find_one({"_id": oid}): a matching document, or None.
find_one(collection, oid) ==
    IF \E d \in collection : d._id = oid
    THEN Some(CHOOSE d \in collection : d._id = oid)
    ELSE None

\* insert_one storing every document under the same _id.
insert_one_fixed_id(collection, task_doc, oid) ==
    collection \cup
        {[f \in DOMAIN task_doc \cup {"_id"} |->
            IF f = "_id" THEN NewObjectId(0) ELSE task_doc[f]]}

\* insert_one(task_doc): the document is stored under a generated _id.
insert_one(collection, task_doc, oid) ==
    collection \cup
        {[f \in DOMAIN task_doc \cup {"_id"} |->
            IF f = "_id" THEN oid ELSE task_doc[f]]}

\* delete_one with a filter that matches any document when none has the _id.
delete_one_any(collection, oid) ==
    IF \E d \in collection : d._id = oid
    THEN collection \ {CHOOSE d \in collection : d._id = oid}
    ELSE IF collection = {} THEN collection
    ELSE collection \ {CHOOSE d \in collection : TRUE}

\* delete_one({"_id": oid}): at most one matching document is removed.
delete_one(collection, oid) ==
    IF \E d \in collection : d._id = oid
    THEN collection \ {CHOOSE d \in collection : d._id = oid}
    ELSE collection

\* delete_many removing a single document.
delete_many_first(collection) ==
    IF collection = {} THEN collection
    ELSE collection \ {CHOOSE d \in collection : TRUE}

\* delete_many({}): every document is removed.
delete_many(collection) == {}

\* count_documents with a filter on completed.
count_documents_completed(collection) ==
    Cardinality({d \in collection : d.completed})

\* count_documents({}).
count_documents(collection) == Cardinality(collection)

\* $set that leaves updated_at as it was.
set_fields_keep_time(doc, update_data) ==
    [f \in DOMAIN doc \cup DOMAIN update_data |->
        IF f \in DOMAIN update_data \ {"updated_at"} THEN update_data[f] ELSE doc[f]]

\* {"$set": update_data} applied to one document: _id is not in update_data.
set_fields(doc, update_data) ==
    [f \in DOMAIN doc \cup DOMAIN update_data |->
        IF f \in DOMAIN update_data THEN update_data[f] ELSE doc[f]]

\* update_one({"_id": oid}, {"$set": update_data}).
update_one(collection, oid, update_data) ==
    IF \E d \in collection : d._id = oid
    THEN LET d == CHOOSE e \in collection : e._id = oid
         IN  (collection \ {d}) \cup {set_fields(d, update_data)}
    ELSE collection

\* find().sort("created_at", -1): every order of the documents with
\* created_at descending; the store fixes no order among equal keys.
sorted_find(collection) ==
    LET n == Cardinality(collection)
    IN  {s \in [1..n -> collection] :
            /\ \A i, j \in 1..n : i # j => s[i] # s[j]
            /\ \A i \in 1..n : \A j \in 1..n :
                   i < j => s[i].created_at >= s[j].created_at}

(* ---------------------------- error handling --------------------------- *)

HTTPException(code) == [type |-> "HTTPException", status_code |-> code]
StorageFault == [type |-> "Exception"]

\* create_task, get_all_tasks, delete_all_tasks: except Exception -> 500.
catch_all(exc) == 500

\* The handlers without their except HTTPException: raise.
reraise_http_missing(exc) == catch_all(exc)

\* delete_task, update_task: except HTTPException: raise; then
\* except Exception -> 500.
reraise_http(exc) ==
    IF exc.type = "HTTPException" THEN exc.status_code ELSE 500

(* ------------------------------- state --------------------------------- *)

NoResponse == [op |-> "none"]

Init ==
    /\ todos_collection = {}
    /\ clock = 0
    /\ oid_counter = 0
    /\ inflight = EmptyBag
    /\ response = NoResponse
    /\ created = {}

\* Time passes.
Tick ==
    /\ response = NoResponse
    /\ clock < MaxClock
    /\ clock' = clock + 1
    /\ UNCHANGED <<todos_collection, oid_counter, inflight, response, created>>

\* The response of the last step reaches its client.
deliver ==
    /\ response # NoResponse
    /\ response' = NoResponse
    /\ UNCHANGED <<todos_collection, clock, oid_counter, inflight, created>>

(* --------------------- history kept for the properties ----------------- *)

\* A write another request applied while request rq was suspended: a
\* delete-all between its two calls has raced with a change of the
\* collection's size, an update between its two calls with another update of
\* the same document.
Observe(rq, event) ==
    IF rq.op = "delete_all_tasks" /\ event.kind \in {"insert", "delete"}
    THEN [rq EXCEPT !.raced = TRUE]
    ELSE IF /\ rq.op = "update_task"
            /\ rq.pc = "find_one"
            /\ event.kind = "update"
            /\ event.oid = rq.oid
    THEN [rq EXCEPT !.dirty = TRUE]
    ELSE rq

Observed(requests, event) == BagOfAll(LAMBDA rq : Observe(rq, event), requests)

\* The requests in flight with rq resumed.
Rest(rq) == inflight (-) SetToBag({rq})

Suspended(rq) == BagIn(rq, inflight)

CanAccept == BagCardinality(inflight) < NumReq

\* created holds one entry per task a create request has inserted, with the
\* text and completed its payload asked for (false when omitted), whether an
\* update has been applied to it since, and the tasks whose create request
\* had returned when this one started.  An entry is dropped when the task is
\* deleted or its create request fails.
CreateReturned(c) ==
    ~\E rq \in BagToSet(inflight) :
        rq.op = "create_task" /\ rq.pc = "find_one" /\ rq.inserted_id = c.oid

Returned == {c.oid : c \in {e \in created : CreateReturned(e)}}

(* ------------------------------ GET /tasks ----------------------------- *)

get_all_tasks ==
    /\ response = NoResponse
    /\ \E fault \in BOOLEAN :
        IF fault
        THEN response' = [op |-> "get_all_tasks", status |-> catch_all(StorageFault), fault |-> TRUE]
        ELSE \E cursor \in sorted_find(todos_collection) :
                response' = [op |-> "get_all_tasks", status |-> 200, fault |-> FALSE,
                             body |-> [i \in DOMAIN cursor |-> task_helper(cursor[i])]]
    /\ UNCHANGED <<todos_collection, clock, oid_counter, inflight, created>>

(* ------------------------------ POST /tasks ---------------------------- *)

\* Lines 130-136: the document is prepared; utcnow() is read twice.
create_task_start(payload) ==
    /\ response = NoResponse
    /\ CanAccept
    /\ oid_counter
         + BagCardinality([rq \in {q \in BagToSet(inflight) :
                                      q.op = "create_task" /\ q.pc = "insert_one"}
                           |-> inflight[rq]])
         < MaxTasks
    /\ \E later \in {clock} \cup (IF clock < MaxClock THEN {clock + 1} ELSE {}) :
        LET task_data == TaskCreate(payload)
            task_doc == [text |-> task_data.text,
                         completed |-> task_data.completed,
                         created_at |-> clock,
                         updated_at |-> later]
        IN  /\ inflight' = inflight (+) SetToBag({
                   [op |-> "create_task", pc |-> "insert_one",
                    payload |-> payload, task_doc |-> task_doc,
                    after |-> Returned]})
            /\ clock' = later
    /\ UNCHANGED <<todos_collection, oid_counter, response, created>>

\* Line 139.
create_task_insert_one(rq) ==
    /\ response = NoResponse
    /\ Suspended(rq)
    /\ rq.op = "create_task"
    /\ rq.pc = "insert_one"
    /\ \E fault \in BOOLEAN :
        IF fault
        THEN /\ response' = [op |-> "create_task", status |-> catch_all(StorageFault), fault |-> TRUE]
             /\ inflight' = Rest(rq)
             /\ UNCHANGED <<todos_collection, oid_counter, created>>
        ELSE LET oid == NewObjectId(oid_counter)
                 event == [kind |-> "insert", oid |-> oid]
             IN  /\ todos_collection' = insert_one(todos_collection, rq.task_doc, oid)
                 /\ oid_counter' = oid_counter + 1
                 /\ inflight' = Observed(Rest(rq), event) (+) SetToBag({
                        [op |-> "create_task", pc |-> "find_one",
                         inserted_id |-> oid]})
                 /\ created' = created \cup
                        {[oid |-> oid,
                          text |-> rq.payload.text,
                          completed |-> IF "completed" \in DOMAIN rq.payload
                                        THEN rq.payload.completed ELSE FALSE,
                          updated |-> FALSE,
                          after |-> rq.after]}
                 /\ UNCHANGED response
    /\ UNCHANGED clock

\* Lines 142-150.
create_task_find_one(rq) ==
    /\ response = NoResponse
    /\ Suspended(rq)
    /\ rq.op = "create_task"
    /\ rq.pc = "find_one"
    /\ \E fault \in BOOLEAN :
        LET inserted_task == find_one(todos_collection, rq.inserted_id)
            failed == {c \in created : c.oid # rq.inserted_id}
        IN  IF fault
            THEN /\ response' = [op |-> "create_task",
                                 status |-> catch_all(StorageFault),
                                 fault |-> TRUE]
                 /\ created' = failed
            ELSE IF inserted_task = None
            THEN /\ response' = [op |-> "create_task",
                                 status |-> catch_all(HTTPException(500)), fault |-> FALSE]
                 /\ created' = failed
            ELSE /\ response' = [op |-> "create_task", status |-> 201, fault |-> FALSE,
                                 body |-> task_helper(inserted_task[1])]
                 /\ created' = created
    /\ inflight' = Rest(rq)
    /\ UNCHANGED <<todos_collection, clock, oid_counter>>

(* -------------------------- DELETE /tasks/{id} ------------------------- *)

\* Lines 160-180: one storage call, so one step.
delete_task(task_id) ==
    /\ response = NoResponse
    /\ IF ~is_valid(task_id)
       THEN /\ response' = [op |-> "delete_task",
                            status |-> reraise_http(HTTPException(400)), fault |-> FALSE]
            /\ UNCHANGED <<todos_collection, inflight, created>>
       ELSE \E fault \in BOOLEAN :
            IF fault
            THEN /\ response' = [op |-> "delete_task",
                                 status |-> reraise_http(StorageFault),
                                 fault |-> TRUE]
                 /\ UNCHANGED <<todos_collection, inflight, created>>
            ELSE LET oid == ObjectId(task_id)
                     after == delete_one(todos_collection, oid)
                     deleted_count == Cardinality(todos_collection) - Cardinality(after)
                 IN  /\ todos_collection' = after
                     /\ IF deleted_count = 0
                        THEN /\ response' =
                                  [op |-> "delete_task",
                                   status |-> reraise_http(HTTPException(404)), fault |-> FALSE]
                             /\ UNCHANGED <<inflight, created>>
                        ELSE /\ response' =
                                  [op |-> "delete_task", status |-> 200, fault |-> FALSE,
                                   body |-> [message |-> "Task deleted successfully",
                                             id |-> task_id]]
                             /\ inflight' = Observed(inflight,
                                                     [kind |-> "delete", oid |-> oid])
                             /\ created' = {c \in created : c.oid # oid}
    /\ UNCHANGED <<clock, oid_counter>>

(* ----------------------------- DELETE /tasks --------------------------- *)

\* Line 194.
delete_all_tasks_count ==
    /\ response = NoResponse
    /\ CanAccept
    /\ \E fault \in BOOLEAN :
        IF fault
        THEN /\ response' = [op |-> "delete_all_tasks",
                             status |-> catch_all(StorageFault),
                             fault |-> TRUE]
             /\ UNCHANGED inflight
        ELSE /\ UNCHANGED response
             /\ inflight' = inflight (+) SetToBag({
                    [op |-> "delete_all_tasks", pc |-> "delete_many",
                     count |-> count_documents(todos_collection),
                     raced |-> FALSE]})
    /\ UNCHANGED <<todos_collection, clock, oid_counter, created>>

\* Lines 197-203.
delete_all_tasks_delete_many(rq) ==
    /\ response = NoResponse
    /\ Suspended(rq)
    /\ rq.op = "delete_all_tasks"
    /\ \E fault \in BOOLEAN :
        IF fault
        THEN /\ response' = [op |-> "delete_all_tasks",
                             status |-> catch_all(StorageFault),
                             fault |-> TRUE]
             /\ inflight' = Rest(rq)
             /\ UNCHANGED <<todos_collection, created>>
        ELSE LET after == delete_many(todos_collection)
                 deleted_count == Cardinality(todos_collection) - Cardinality(after)
             IN  /\ todos_collection' = after
                 /\ response' = [op |-> "delete_all_tasks", status |-> 200, fault |-> FALSE,
                                 raced |-> rq.raced,
                                 body |-> [message |-> "All tasks deleted successfully",
                                           deleted_count |-> deleted_count,
                                           previous_count |-> rq.count]]
                 /\ inflight' = IF deleted_count = 0
                                THEN Rest(rq)
                                ELSE Observed(Rest(rq), [kind |-> "delete"])
                 /\ created' = {c \in created : c.oid \in Ids(after)}
    /\ UNCHANGED <<clock, oid_counter>>

(* ---------------------------- PUT /tasks/{id} -------------------------- *)

\* update_data with text and completed set whether supplied or not.
prepare_update_all(task_data, now) ==
    [f \in {"updated_at", "text", "completed"} |->
        IF f = "updated_at" THEN now
        ELSE IF task_data[f] # None THEN task_data[f][1]
        ELSE IF f = "text" THEN "" ELSE FALSE]

\* Lines 222-226.
prepare_update(task_data, now) ==
    [f \in {"updated_at"} \cup {g \in {"text", "completed"} : task_data[g] # None} |->
        IF f = "updated_at" THEN now ELSE task_data[f][1]]

\* Lines 215-226.  Of task_id only ObjectId(task_id) is used afterwards.
update_task_start(task_id, payload) ==
    /\ response = NoResponse
    /\ CanAccept
    /\ IF ~is_valid(task_id)
       THEN /\ response' = [op |-> "update_task",
                            status |-> reraise_http(HTTPException(400)), fault |-> FALSE]
            /\ UNCHANGED inflight
       ELSE /\ UNCHANGED response
            /\ inflight' = inflight (+) SetToBag({
                   [op |-> "update_task", pc |-> "update_one",
                    oid |-> ObjectId(task_id),
                    payload |-> payload,
                    update_data |-> prepare_update(TaskUpdate(payload), clock)]})
    /\ UNCHANGED <<todos_collection, clock, oid_counter, created>>

\* Lines 229-238.
update_task_update_one(rq) ==
    /\ response = NoResponse
    /\ Suspended(rq)
    /\ rq.op = "update_task"
    /\ rq.pc = "update_one"
    /\ \E fault \in BOOLEAN :
        IF fault
        THEN /\ response' = [op |-> "update_task",
                             status |-> reraise_http(StorageFault),
                             fault |-> TRUE]
             /\ inflight' = Rest(rq)
             /\ UNCHANGED <<todos_collection, created>>
        ELSE LET matched_count ==
                     Cardinality({d \in todos_collection : d._id = rq.oid})
             IN  /\ todos_collection' =
                        update_one(todos_collection, rq.oid, rq.update_data)
                 /\ IF matched_count = 0
                    THEN /\ response' =
                              [op |-> "update_task",
                               status |-> reraise_http(HTTPException(404)), fault |-> FALSE]
                         /\ inflight' = Rest(rq)
                         /\ UNCHANGED created
                    ELSE /\ UNCHANGED response
                         /\ inflight' =
                                Observed(Rest(rq), [kind |-> "update", oid |-> rq.oid])
                                (+) SetToBag({
                                    [op |-> "update_task", pc |-> "find_one",
                                     oid |-> rq.oid,
                                     updated_at |-> rq.update_data.updated_at,
                                     dirty |-> FALSE]})
                         /\ created' = {IF c.oid = rq.oid
                                        THEN [c EXCEPT !.updated = TRUE] ELSE c :
                                        c \in created}
    /\ UNCHANGED <<clock, oid_counter>>

\* Lines 241-249.
update_task_find_one(rq) ==
    /\ response = NoResponse
    /\ Suspended(rq)
    /\ rq.op = "update_task"
    /\ rq.pc = "find_one"
    /\ \E fault \in BOOLEAN :
        LET updated_task == find_one(todos_collection, rq.oid)
        IN  IF fault
            THEN response' = [op |-> "update_task",
                              status |-> reraise_http(StorageFault),
                              fault |-> TRUE]
            ELSE IF updated_task = None
            THEN response' = [op |-> "update_task",
                              status |-> reraise_http(HTTPException(500)), fault |-> FALSE]
            ELSE response' = [op |-> "update_task", status |-> 200, fault |-> FALSE,
                              updated_at |-> rq.updated_at,
                              dirty |-> rq.dirty,
                              body |-> task_helper(updated_task[1])]
    /\ inflight' = Rest(rq)
    /\ UNCHANGED <<todos_collection, clock, oid_counter, created>>

(* --------------------------- the specification ------------------------- *)

Next ==
    \/ Tick
    \/ deliver
    \/ get_all_tasks
    \/ \E payload \in CreatePayloads : create_task_start(payload)
    \/ \E rq \in BagToSet(inflight) : create_task_insert_one(rq)
    \/ \E rq \in BagToSet(inflight) : create_task_find_one(rq)
    \/ \E task_id \in TaskIds : delete_task(task_id)
    \/ delete_all_tasks_count
    \/ \E rq \in BagToSet(inflight) : delete_all_tasks_delete_many(rq)
    \/ \E task_id \in TaskIds : \E payload \in UpdatePayloads :
          update_task_start(task_id, payload)
    \/ \E rq \in BagToSet(inflight) : update_task_update_one(rq)
    \/ \E rq \in BagToSet(inflight) : update_task_find_one(rq)

Spec == Init /\ [][Next]_vars

(* ------------------------------ properties ----------------------------- *)

IsList == response.op = "get_all_tasks" /\ response.status = 200

\* The positions of the listing that carry task oid.
Positions(oid) ==
    {i \in DOMAIN response.body : response.body[i].id = ObjectIdStr(oid)}

\* The listing holds the task of history entry c exactly once, with the text
\* and completed its create request asked for.
ListedAsCreated(c) ==
    /\ Cardinality(Positions(c.oid)) = 1
    /\ \A i \in Positions(c.oid) :
          /\ response.body[i].text = c.text
          /\ response.body[i].completed = c.completed

\* C1 as stated: a listing produced after a create request returned, with
\* no delete of the task in between, holds the task exactly once with the
\* text of the request and completed as requested (false when omitted).
C1_CreatedThenListed ==
    IsList => \A c \in created : CreateReturned(c) => ListedAsCreated(c)

\* C1 amended: the same, for a task that no delete and no update has been
\* applied to since it was inserted.
C1_CreatedUntouchedThenListed ==
    IsList =>
        \A c \in created : (CreateReturned(c) /\ ~c.updated) => ListedAsCreated(c)

\* A listing of two tasks, one of them created with completed omitted and
\* untouched since.
C1_Witness ==
    /\ IsList
    /\ Len(response.body) = 2
    /\ \E c \in created : CreateReturned(c) /\ ~c.updated /\ ~c.completed

\* The step just taken answers a request of kind op.
Answers(op) == response.op = "none" /\ response'.op = op

\* The step answered a request with the not-found error, unless the storage
\* call itself raised.
NotFoundOrFault ==
    \/ response'.status = 404 /\ ~response'.fault
    \/ response'.status = 500 /\ response'.fault

\* C2: delete_task and update_task of a well-formed id that names no stored
\* task answer 404 (when the storage call answers at all) and leave every
\* stored task as it was.
C2_NotFoundLeavesCollection ==
    [][ /\ \A task_id \in WellFormedIds :
              ( /\ Answers("delete_task")
                /\ ObjectId(task_id) \notin Ids(todos_collection)
                /\ delete_task(task_id) )
                  => /\ NotFoundOrFault
                     /\ todos_collection' = todos_collection
        /\ \A rq \in BagToSet(inflight) :
              ( /\ rq.op = "update_task"
                /\ rq.pc = "update_one"
                /\ rq.oid \notin Ids(todos_collection)
                /\ update_task_update_one(rq) )
                  => /\ response'.op = "update_task"
                     /\ NotFoundOrFault
                     /\ todos_collection' = todos_collection
      ]_vars

\* A request was answered 404 while tasks are stored.
C2_Witness ==
    /\ response.op \in {"delete_task", "update_task"}
    /\ response.status = 404
    /\ todos_collection # {}

\* C3: a malformed id given to delete_task or update_task is answered 400,
\* whatever the storage would do: nothing is stored, changed or left in
\* flight; and no 400 or 404 is turned into a 500: these handlers answer 500
\* only when a storage call raised or the updated task is gone.
C3_MalformedIdIs400 ==
    [][ /\ \A task_id \in MalformedIds :
              /\ (Answers("delete_task") /\ delete_task(task_id))
                    => /\ response'.status = 400
                       /\ ~response'.fault
                       /\ todos_collection' = todos_collection
                       /\ inflight' = inflight
              /\ \A payload \in UpdatePayloads :
                    (Answers("update_task") /\ update_task_start(task_id, payload))
                        => /\ response'.status = 400
                           /\ ~response'.fault
                           /\ todos_collection' = todos_collection
                           /\ inflight' = inflight
        /\ ( /\ (Answers("delete_task") \/ Answers("update_task"))
             /\ response'.status = 500 )
              => \/ response'.fault
                 \/ \E rq \in BagToSet(inflight) :
                       /\ rq.op = "update_task"
                       /\ rq.pc = "find_one"
                       /\ rq.oid \notin Ids(todos_collection)
      ]_vars

\* A malformed id was answered 400 while tasks are stored.
C3_Witness ==
    /\ response.op \in {"delete_task", "update_task"}
    /\ response.status = 400
    /\ todos_collection # {}

\* The request rq is resumed by the step and is in flight no longer.
Ends(rq) == CopiesIn(rq, inflight') < CopiesIn(rq, inflight)

\* A request suspended at find_one has applied its insert_one, or an
\* update_one that matched a task.
HasWritten(rq) == rq.pc = "find_one"

\* C4 as stated: a request that ends with an error response has left the
\* collection as it found it: the step that answers changes nothing, and the
\* request has applied no write in an earlier step.
C4_ErrorLeavesNoEffect ==
    [][ ( /\ response.op = "none"
          /\ response'.op # "none"
          /\ response'.status \in {400, 404, 500} )
          => /\ todos_collection' = todos_collection
             /\ \A rq \in BagToSet(inflight) : Ends(rq) => ~HasWritten(rq)
      ]_vars

\* The document of the collection with the given _id.
Doc(collection, oid) == CHOOSE d \in collection : d._id = oid

\* C5: the update_one of update_task changes, of the task it matches, no
\* field the payload does not supply (text when only completed is supplied,
\* completed when only text is, neither when the payload is empty), nor its
\* _id or created_at, and changes no other task.
C5_UpdateTouchesOnlySupplied ==
    [][ \A rq \in BagToSet(inflight) :
          ( /\ rq.op = "update_task"
            /\ rq.pc = "update_one"
            /\ rq.oid \in Ids(todos_collection)
            /\ response'.op = "none"
            /\ update_task_update_one(rq) )
            => /\ Cardinality(todos_collection') = Cardinality(todos_collection)
               /\ {d \in todos_collection' : d._id # rq.oid}
                     = {d \in todos_collection : d._id # rq.oid}
               /\ rq.oid \in Ids(todos_collection')
               /\ LET old == Doc(todos_collection, rq.oid)
                      new == Doc(todos_collection', rq.oid)
                  IN  /\ DOMAIN new = DOMAIN old
                      /\ new.created_at = old.created_at
                      /\ "text" \notin DOMAIN rq.payload => new.text = old.text
                      /\ "completed" \notin DOMAIN rq.payload
                            => new.completed = old.completed
      ]_vars

\* A task created with completed = true is stored with completed = false
\* and the text it was created with: an update that supplied completed and
\* no text has been applied to it.
C5_Witness ==
    \E c \in created :
        /\ c.completed
        /\ c.updated
        /\ \E d \in todos_collection :
              d._id = c.oid /\ ~d.completed /\ d.text = c.text

\* C6: no two stored tasks have the same id, in the store or as rendered in
\* a response, and no step changes the id of a stored task: an id that is
\* stored after a step was stored before it or is the one insert_one has
\* just generated, and a step that leaves the number of tasks leaves their ids.
C6_IdsUniqueAndKept ==
    [][ /\ \A d, e \in todos_collection' :
              (d._id = e._id \/ ObjectIdStr(d._id) = ObjectIdStr(e._id)) => d = e
        /\ Ids(todos_collection') \subseteq
              Ids(todos_collection) \cup {NewObjectId(oid_counter)}
        /\ NewObjectId(oid_counter) \notin Ids(todos_collection)
        /\ Cardinality(todos_collection') = Cardinality(todos_collection)
              => Ids(todos_collection') = Ids(todos_collection)
      ]_vars

\* Two tasks are stored, one of them updated since it was created.
C6_Witness ==
    /\ Cardinality(todos_collection) = 2
    /\ \E c \in created : c.updated

\* C7: a successful delete_all_tasks leaves the collection empty; an empty
\* collection stays empty until a create request inserts; and a listing of
\* the empty collection is the empty sequence.
C7_DeleteAllThenListEmpty ==
    [][ /\ (Answers("delete_all_tasks") /\ response'.status = 200)
              => todos_collection' = {}
        /\ (todos_collection = {} /\ todos_collection' # {})
              => \E rq \in BagToSet(inflight) :
                    /\ rq.op = "create_task"
                    /\ rq.pc = "insert_one"
                    /\ create_task_insert_one(rq)
        /\ ( /\ Answers("get_all_tasks")
             /\ response'.status = 200
             /\ todos_collection = {} )
              => response'.body = <<>>
      ]_vars

\* delete_all_tasks has just removed two tasks.
C7_Witness ==
    /\ response.op = "delete_all_tasks"
    /\ response.status = 200
    /\ response.body.deleted_count = 2
    /\ todos_collection = {}

IsUpdated == response.op = "update_task" /\ response.status = 200

\* C8 as stated: the task a successful update_task returns carries the time
\* of that update as its updated_at.
C8_ReturnedTimeIsOwn ==
    IsUpdated => response.body.updated_at = Some(response.updated_at)

\* C8 amended: update_task reads the time when it starts, whatever the
\* payload supplies; its update_one stores that time as the task's
\* updated_at, which stays stored until another update of the task is
\* applied; and the task it returns carries that time unless another update
\* of the task was applied between its update_one and its find_one.
C8_TimeIsOwnUnlessOverwritten ==
    /\ [](IsUpdated /\ ~response.dirty
            => response.body.updated_at = Some(response.updated_at))
    /\ [](\A rq \in BagToSet(inflight) :
            (rq.op = "update_task" /\ rq.pc = "find_one" /\ ~rq.dirty)
                => \A d \in todos_collection :
                      d._id = rq.oid => d.updated_at = rq.updated_at)
    /\ [][ \A rq \in BagToSet(inflight') :
             ( /\ rq.op = "update_task"
               /\ rq.pc = "update_one"
               /\ CopiesIn(rq, inflight') > CopiesIn(rq, inflight) )
               => /\ "updated_at" \in DOMAIN rq.update_data
                  /\ rq.update_data.updated_at = clock
         ]_vars

\* An update that supplied nothing, or anything, has returned the task with
\* a refreshed updated_at, later than its created_at.
C8_Witness ==
    /\ IsUpdated
    /\ ~response.dirty
    /\ response.body.created_at = Some(0)
    /\ response.body.updated_at = Some(1)

\* The position of task oid in the listing.
Position(oid) == CHOOSE i \in DOMAIN response.body :
                    response.body[i].id = ObjectIdStr(oid)

\* C9 as stated: the listing holds every stored task exactly once, with
\* created_at descending, and a task whose create request had returned
\* before another's started comes after it.
C9_NewestFirst ==
    IsList =>
        /\ Len(response.body) = Cardinality(todos_collection)
        /\ \A d \in todos_collection : Cardinality(Positions(d._id)) = 1
        /\ \A i, j \in DOMAIN response.body :
              i < j => response.body[i].created_at[1] >= response.body[j].created_at[1]
        /\ \A earlier, later \in created :
              earlier.oid \in later.after
                  => Position(later.oid) < Position(earlier.oid)

IsDeletedAll == response.op = "delete_all_tasks" /\ response.status = 200

\* C10 as stated: delete_all_tasks reports as many tasks deleted as it
\* counted before.
C10_CountsAgree ==
    IsDeletedAll => response.body.deleted_count = response.body.previous_count

\* C10 amended: the two counts agree unless another request inserted or
\* deleted a task between the count_documents and the delete_many.
C10_CountsAgreeUnlessRaced ==
    (IsDeletedAll /\ ~response.raced)
        => response.body.deleted_count = response.body.previous_count

\* delete_all_tasks has removed tasks that it had counted, with no write of
\* another request in between.
C10_Witness ==
    /\ IsDeletedAll
    /\ ~response.raced
    /\ response.body.deleted_count = 2

====
